---- MODULE Spec2Model ----
(***************************************************************************)
(* Gesture detection and action dispatch of the presentation player.       *)
(*                                                                         *)
(* The module models                                                       *)
(*   - the classifier service (services/geminiService.ts): the model       *)
(*     singleton, initializeModel and identifyGesture;                     *)
(*   - the local-model WebcamHandler (components/WebcamHandler.tsx, lines  *)
(*     1-251): camera acquisition, the animation-frame detection loop and  *)
(*     its cooldown policy                         -> specification Spec;  *)
(*   - the remote-API WebcamHandler (same file, lines 252-629): camera     *)
(*     acquisition, the timer-driven analyzeLoop with its backoff          *)
(*                                           -> specification SpecRemote.  *)
(*                                                                         *)
(* Time is Date.now() in milliseconds.  A React re-render is taken to      *)
(* happen at once after a state or prop change, so the callback that is    *)
(* scheduled is always the one of the latest render, while a callback that *)
(* is suspended at an await keeps the values of the render it was created  *)
(* in.  Promise continuations that are already resolved (microtasks) run   *)
(* before any other event: see Busy.                                       *)
(***************************************************************************)
EXTENDS Integers, Sequences, FiniteSets, TLC

(***************************************************************************)
(* types.ts                                                                *)
(***************************************************************************)
HandGesture ==
    {"Thumb_Up", "Thumb_Down", "Open_Palm", "Victory", "Closed_Fist",
     "Pointing_Up", "ILoveYou", "None"}

GestureAction ==
    {"NEXT", "PREV", "PAUSE", "VOL_UP", "VOL_DOWN", "CHANGE_THEME",
     "ZOOM_IN", "ZOOM_OUT", "SPACE", "NONE"}

DEFAULT_MAPPINGS ==
    [g \in HandGesture |->
        CASE g = "Thumb_Up"    -> "NEXT"
          [] g = "Thumb_Down"  -> "PREV"
          [] g = "Open_Palm"   -> "PAUSE"
          [] g = "Victory"     -> "VOL_UP"
          [] g = "Closed_Fist" -> "VOL_DOWN"
          [] g = "Pointing_Up" -> "ZOOM_IN"
          [] g = "ILoveYou"    -> "ZOOM_OUT"
          [] OTHER             -> "NONE"]

(***************************************************************************)
(* Program constants                                                       *)
(***************************************************************************)
\* App: "useState(50)" for volume
InitialVolume == 50
\* App: "useState(1)" for zoomLevel, in tenths
InitialZoom == 10
\* handleGesture: "prev >= 2.5 ? 1 : prev + 0.5", in tenths
MaxZoom == 25
ZoomStep == 5
\* handleVolume: "const step = 10", "Math.min(prev + step, 100)"
VolumeStep == 10
MaxVolume == 100
\* the coordinate 1 of the normalized frame, in hundredths
One == 100
\* Math.min() of no arguments is Infinity, Math.max() of none -Infinity: a
\* number beyond every coordinate stands for it
Infinity == 1000000
\* identifyGesture: "if (score < 0.5)", scores are in hundredths
ConfidenceThreshold == 50
\* detectionLoop: "if (now - lastDetectionTimeRef.current < 150) return"
SamplingInterval == 150
\* detectionLoop: "actionCooldownRef.current = now + 1000"
CooldownMs == 1000
\* detectionLoop: "if (now - actionCooldownRef.current > 500)"
ResetAfterMs == 500

\* analyzeLoop: "useRef<number>(6000)", "nextDelay = 6000"
BaseDelay == 6000
\* analyzeLoop: "Math.min(nextDelay * 2, 30000)"
MaxDelay == 30000
\* "const COOLDOWN_MS = 2500"
COOLDOWN_MS == 2500
\* analyzeLoop: "window.setTimeout(analyzeLoop, 500)" while the video is not ready
NotReadyDelay == 500
\* analyzeLoop: "window.setTimeout(analyzeLoop, 1000)" while the document is hidden
HiddenDelay == 1000

(***************************************************************************)
(* Bounds of the model                                                     *)
(***************************************************************************)
\* Date.now() when the detector is mounted
StartTime == 10000
\* the clock stops advancing this many milliseconds after StartTime
MaxElapsed == 1300
\* getUserMedia requests that are granted in one run of Spec
MaxGrants == 1
\* re-renders by the parent in one run of Spec: prop changes and the unmount
MaxChanges == 2
\* getUserMedia requests that may be pending together
MaxPending == 2
\* the same budgets for a run of SpecRemote
MaxRemoteGrants == 2
MaxRemoteChanges == 2
\* runs of analyzeLoop past its guard (polls and identifyGesture calls)
MaxRemoteLoops == 4
\* times a run lets time pass while a call is in flight
MaxRemoteWaits == 1
\* the clock of SpecRemote stops this many milliseconds after StartTime
MaxRemoteElapsed == 80000
\* the latencies of a remote identifyGesture call
Latencies == {3000}
\* the steps by which the clock advances between two events
ClockSteps == {100, 1000}
\* the categories the recognizer reports in the model
Categories == {"Thumb_Up", "Thumb_Down", "None"}
\* the actions the selects of the settings are set to
EditActions == {"NONE", "SPACE"}
\* DEMO_SLIDES.length
DemoSlideCount == 3
\* the lengths of the decks that are uploaded
UploadLengths == {DemoSlideCount - 1}
\* the keys that are pressed
Keys == {"ArrowRight", "ArrowLeft", "Escape", "f"}
\* the actions the remote classifier returns to the App
AppActions == {"NEXT", "PAUSE"}
\* Date.now() when the App of the settings specification is started
AppStartTime == 10600
\* the most landmarks of a hand in the model
MaxLandmarks == 2
\* landmark coordinates in hundredths of the frame: the recognizer reports a
\* hand that is partly out of the frame with coordinates below 0 or above 1
Coordinates == {-10, 0, 60, 110}
\* the mappings the settings hand to the detector
MappingChoices ==
    {DEFAULT_MAPPINGS, [DEFAULT_MAPPINGS EXCEPT !["Thumb_Down"] = "NONE"]}

VARIABLES
    clock,                 \* Date.now()
    \* ---- services/geminiService.ts, module state
    gestureRecognizer,     \* TRUE when the recognizer object exists
    isInitializing,
    initError,
    \* ---- WebcamHandler (local-model variant)
    isMountedRef,
    isActive,              \* prop
    isPaused,              \* prop
    gestureMappings,       \* prop
    changesLeft,           \* prop changes and unmounts the run still makes
    cameraError,           \* state: TRUE when an error text is set
    requestRef,            \* TRUE when an animation-frame callback is pending
    lastDetectionTimeRef,
    lastGestureRef,
    actionCooldownRef,
    detectionState,
    boundingBox,           \* "null" or "box"
    calls,                 \* identifyGesture calls that have not been consumed
    srcObject,             \* stream attached to the video element, 0 for null
    liveStreams,           \* streams with un-stopped tracks
    pendingMedia,          \* getUserMedia requests that have not settled
    streamCount,           \* streams granted so far
    grantsLeft,            \* streams the run still grants
    \* ---- WebcamHandler (remote-API variant), beside the ones above
    handlerVersion,        \* identity of the onGestureDetected prop
    delayRef,
    lastActionTimeRef,
    processing,            \* state
    timers,                \* pending setTimeout(analyzeLoop, ..) timers
    requests,              \* identifyGesture calls in flight
    loopsLeft,             \* runs of analyzeLoop past its guard the run still makes
    waitsLeft,             \* times the run still lets time pass during a call
    \* ---- observation of the callback and of the result handling
    dispatchLog,           \* the onGestureDetected calls, in order
    processed,             \* the result handled by the latest continuation
    \* ---- App (sw.js, App.tsx)
    storage,               \* localStorage item 'gesture_mappings'
    currentSlideIndex,
    volume,
    zoomLevel,             \* in tenths: 10 for 1, 25 for 2.5
    isDarkMode,
    slidesLength,          \* slides.length
    \* ---- the service worker (sw.js 1-95 and its other versions)
    caches,                \* names of the caches of the origin's CacheStorage
    activeWorker,          \* version of the registration's active worker
    waitingWorker,         \* version of the installed worker that waits
    workerState,           \* "activating" or "activated", for activeWorker
    cacheNames,            \* what caches.keys() gave the activate listener
    deleting               \* caches.delete(..) calls that have not settled

vars ==
    <<clock, gestureRecognizer, isInitializing, initError, isMountedRef,
      isActive, isPaused, gestureMappings, changesLeft, cameraError, requestRef,
      lastDetectionTimeRef, lastGestureRef, actionCooldownRef,
      detectionState, boundingBox, calls, srcObject, liveStreams,
      pendingMedia, streamCount, grantsLeft, handlerVersion, delayRef,
      lastActionTimeRef, processing, timers, requests, loopsLeft,
      waitsLeft,
      dispatchLog, processed, storage, currentSlideIndex, volume, zoomLevel,
      isDarkMode, slidesLength, caches, activeWorker, waitingWorker,
      workerState, cacheNames, deleting>>

workerVars ==
    <<caches, activeWorker, waitingWorker, workerState, cacheNames, deleting>>
deckVars == <<currentSlideIndex, volume, zoomLevel, isDarkMode, slidesLength>>
serviceVars == <<gestureRecognizer, isInitializing, initError>>
cameraVars == <<srcObject, liveStreams, pendingMedia, streamCount, grantsLeft>>
propVars == <<isMountedRef, isActive, isPaused, gestureMappings, changesLeft>>
cooldownVars == <<lastGestureRef, actionCooldownRef>>
remoteVars ==
    <<handlerVersion, delayRef, lastActionTimeRef, processing, timers,
      requests, loopsLeft, waitsLeft>>
loopVars ==
    <<requestRef, lastDetectionTimeRef, lastGestureRef, actionCooldownRef,
      detectionState, boundingBox, calls, dispatchLog, processed, remoteVars>>

(***************************************************************************)
(* identifyGesture, once the recognizer exists (geminiService.ts 77-125).  *)
(* raw is the recognizer's output [name, score, landmarks], the name       *)
(* "nohand" standing for an empty gesture list; ready is                   *)
(* videoSource.readyState >= 2.                                            *)
(* The result carries the category both as the action of the switch and,   *)
(* for the loop that reads result.gesture (types.ts DetectionResult), as   *)
(* the gesture; a score below the threshold yields the "none" result.      *)
(***************************************************************************)
NoneResult(score) ==
    [gesture |-> "None", action |-> "NONE", confidence |-> score,
     boundingBox |-> "null", error |-> "none"]

ErrorResult(e) ==
    [gesture |-> "None", action |-> "NONE", confidence |-> 0,
     boundingBox |-> "null", error |-> e]

ActionOfCategory(name) ==
    CASE name = "Thumb_Up"    -> "NEXT"
      [] name = "Thumb_Down"  -> "PREV"
      [] name = "Open_Palm"   -> "PAUSE"
      [] name = "Victory"     -> "VOL_UP"
      [] name = "Closed_Fist" -> "VOL_DOWN"
      [] name = "Pointing_Up" -> "ZOOM_IN"
      [] name = "ILoveYou"    -> "ZOOM_OUT"
      [] OTHER                -> "NONE"

\* a filter that lets a score one below the threshold pass
BelowLowerThreshold(score) == score < ConfidenceThreshold - 1

BelowThreshold(score) == score < ConfidenceThreshold

Recognize(raw, ready) ==
    IF ~ready THEN NoneResult(0)
    ELSE IF raw.name = "nohand" THEN NoneResult(0)
    ELSE IF BelowThreshold(raw.score) THEN NoneResult(raw.score)
    ELSE [gesture |-> raw.name, action |-> ActionOfCategory(raw.name),
          confidence |-> raw.score,
          boundingBox |-> IF raw.landmarks THEN "box" ELSE "null",
          error |-> "none"]

NoHand == [name |-> "nohand", score |-> 0, landmarks |-> FALSE]

\* the recognizer outputs of the model: no hand, each category on the
\* threshold, one just below it, one without landmarks
RawOutputs ==
    {NoHand}
      \cup [name : Categories, score : {ConfidenceThreshold}, landmarks : {TRUE}]
      \cup {[name |-> "Thumb_Up", score |-> ConfidenceThreshold - 1,
              landmarks |-> TRUE],
             [name |-> "Thumb_Down", score |-> ConfidenceThreshold,
              landmarks |-> FALSE]}

(***************************************************************************)
(* Initial state: the detector has just been mounted by App with           *)
(* isActive = true (App.tsx 382, sw.js 602); its three effects have run:   *)
(* startCamera has issued a getUserMedia request, the loop effect has      *)
(* requested the first animation frame.                                    *)
(***************************************************************************)
(***************************************************************************)
(* The persisted mapping (sw.js 156-163, 246-250).  A localStorage item is *)
(* a record: kind tells whether the item is absent, the empty string, a    *)
(* text that JSON.parse rejects, the JSON text null, or the JSON text of   *)
(* an object; entries are the object's key/value pairs in the order of the *)
(* text.  A parsed object is a function from its keys to its values, JSON  *)
(* null is NullValue.                                                      *)
(***************************************************************************)
NullValue == [null |-> "null"]

Item(kind, entries) == [kind |-> kind, entries |-> entries]

\* Object.values(HandGesture): the order of the keys of DEFAULT_MAPPINGS
GestureOrder ==
    <<"Thumb_Up", "Thumb_Down", "Open_Palm", "Victory", "Closed_Fist",
      "Pointing_Up", "ILoveYou", "None">>

RECURSIVE EntriesFrom(_, _)
EntriesFrom(m, i) ==
    IF i > Len(GestureOrder) THEN <<>>
    ELSE IF GestureOrder[i] \in DOMAIN m
         THEN <<<<GestureOrder[i], m[GestureOrder[i]]>>>> \o EntriesFrom(m, i + 1)
         ELSE EntriesFrom(m, i + 1)

\* JSON.stringify(gestureMappings)
Stringify(m) ==
    IF m = NullValue THEN Item("null", <<>>)
    ELSE Item("object", EntriesFrom(m, 1))

\* JSON.parse of an item that holds null or an object; a key that is written
\* twice takes its last value
Parse(item) ==
    IF item.kind = "null" THEN NullValue
    ELSE LET e == item.entries
             keys == {e[i][1] : i \in 1..Len(e)}
             last(k) == CHOOSE i \in 1..Len(e) :
                           /\ e[i][1] = k
                           /\ \A j \in (i + 1)..Len(e) : e[j][1] # k
         IN  [k \in keys |-> e[last(k)][2]]

\* "saved ? JSON.parse(saved) : DEFAULT_MAPPINGS", DEFAULT_MAPPINGS in the catch
LoadMappings(item) ==
    IF item.kind \in {"absent", "empty"} THEN DEFAULT_MAPPINGS
    ELSE IF item.kind = "garbage" THEN DEFAULT_MAPPINGS
    ELSE Parse(item)

(***************************************************************************)
(* The service worker: three versions of one script (sw.js 1-95,           *)
(* unnamed/part_001, unnamed/part_002) that differ in CACHE_NAME and in    *)
(* the fetch listener.                                                     *)
(***************************************************************************)
Versions == {"v12", "v21", "v42"}

NoVersion == "none"

\* "const CACHE_NAME = .." of each version
CACHE_NAME(version) ==
    CASE version = "v12" -> "smart-presenter-v12-fix-logs"
      [] version = "v21" -> "smart-presenter-v21-log-fix"
      [] version = "v42" -> "smart-presenter-v42-mobile-fix"

\* a cache of the origin that no version of the worker names
ForeignCache == "other-cache"

AllCacheNames == {CACHE_NAME(version) : version \in Versions} \cup {ForeignCache}

\* no worker is registered and the origin has no cache
NoWorker ==
    /\ caches = {}
    /\ activeWorker = NoVersion
    /\ waitingWorker = NoVersion
    /\ workerState = "activated"
    /\ cacheNames = {}
    /\ deleting = {}

\* the App's presentation state at its first render (App.tsx 11-21)
InitialDeck ==
    /\ currentSlideIndex = 0
    /\ volume = InitialVolume
    /\ zoomLevel = InitialZoom
    /\ isDarkMode = TRUE
    /\ slidesLength = DemoSlideCount

InitialDetectionState ==
    [gesture |-> "None", action |-> "NONE", label |-> "loading-text",
     status |-> "loading"]

NothingProcessed ==
    [result |-> ErrorResult("never"), raw |-> NoHand, fired |-> FALSE,
     live |-> TRUE]

NoMedia == [b \in BOOLEAN |-> 0]

Init ==
    /\ clock = StartTime
    /\ gestureRecognizer = FALSE
    /\ isInitializing = FALSE
    /\ initError = FALSE
    /\ isMountedRef = TRUE
    /\ isActive = TRUE
    /\ isPaused = FALSE
    /\ gestureMappings = DEFAULT_MAPPINGS
    /\ changesLeft = MaxChanges
    /\ cameraError = FALSE
    /\ requestRef = TRUE
    /\ lastDetectionTimeRef = 0
    /\ lastGestureRef = "None"
    /\ actionCooldownRef = 0
    /\ detectionState = InitialDetectionState
    /\ boundingBox = "null"
    /\ calls = {}
    /\ srcObject = 0
    /\ liveStreams = {}
    /\ pendingMedia = [NoMedia EXCEPT ![TRUE] = 1]
    /\ streamCount = 0
    /\ grantsLeft = MaxGrants
    /\ handlerVersion = 0
    /\ delayRef = BaseDelay
    /\ lastActionTimeRef = 0
    /\ processing = FALSE
    /\ timers = <<>>
    /\ requests = <<>>
    /\ loopsLeft = 0
    /\ waitsLeft = 0
    /\ dispatchLog = <<>>
    /\ processed = NothingProcessed
    /\ storage = Stringify(gestureMappings)
    /\ NoWorker
    /\ InitialDeck

\* A resolved promise's continuation is queued: it runs before anything else.
Busy == \E c \in calls : c.phase = "micro"

\* videoRef.current: the <video> element is rendered unless the error button is
VideoElement == isMountedRef /\ ~cameraError

(***************************************************************************)
(* Camera (WebcamHandler.tsx 53-88)                                        *)
(***************************************************************************)
PendingTotal == pendingMedia[TRUE] + pendingMedia[FALSE]

\* startCamera up to its await; active is the isActive of the render whose
\* startCamera is called
StartCamera(active) ==
    /\ cameraError' = FALSE
    /\ IF VideoElement /\ srcObject # 0
          THEN /\ liveStreams' = liveStreams \ {srcObject}
               /\ srcObject' = 0
          ELSE UNCHANGED <<liveStreams, srcObject>>
    /\ pendingMedia' = [pendingMedia EXCEPT ![active] = @ + 1]
    /\ UNCHANGED <<streamCount, grantsLeft>>

\* a stop step that reads the stream without testing for one, in place of
\* StopStream
StopWithoutGuard(video, attached, live) ==
    [srcObject |-> 0, liveStreams |-> live \ {attached},
     threw |-> (~video \/ attached = 0)]

\* "if (videoRef.current?.srcObject) { ...getTracks().forEach(t => t.stop());
\* videoRef.current.srcObject = null }" (85-88), as a function of the
\* element, the stream attached to it and the live streams
StopStream(video, attached, live) ==
    IF video /\ attached # 0
      THEN [srcObject |-> 0, liveStreams |-> live \ {attached}, threw |-> FALSE]
      ELSE [srcObject |-> attached, liveStreams |-> live, threw |-> FALSE]

\* the isActive effect when isActive is false
StopCamera ==
    /\ LET after == StopStream(VideoElement, srcObject, liveStreams)
       IN /\ liveStreams' = after.liveStreams
          /\ srcObject' = after.srcObject
    /\ UNCHANGED <<cameraError, pendingMedia, streamCount, grantsLeft>>

\* getUserMedia resolves with a new stream: startCamera after its await
MediaResolves(active) ==
    /\ ~Busy
    /\ pendingMedia[active] > 0
    /\ grantsLeft > 0
    /\ grantsLeft' = grantsLeft - 1
    /\ pendingMedia' = [pendingMedia EXCEPT ![active] = @ - 1]
    /\ streamCount' = streamCount + 1
    /\ IF ~isMountedRef \/ ~active
          THEN UNCHANGED <<liveStreams, srcObject>>
          ELSE /\ liveStreams' = liveStreams \cup {streamCount + 1}
               /\ srcObject' = IF VideoElement THEN streamCount + 1 ELSE srcObject
    /\ UNCHANGED <<clock, serviceVars, propVars, cameraError, loopVars,
                   storage, workerVars, deckVars>>

\* getUserMedia rejects: the catch of startCamera; the error button replaces
\* the <video> element, whose stream stays as it is
MediaFails(active) ==
    /\ ~Busy
    /\ pendingMedia[active] > 0
    /\ pendingMedia' = [pendingMedia EXCEPT ![active] = @ - 1]
    /\ IF isMountedRef
          THEN cameraError' = TRUE /\ srcObject' = 0
          ELSE UNCHANGED <<cameraError, srcObject>>
    /\ UNCHANGED <<clock, serviceVars, propVars, liveStreams, streamCount,
                   grantsLeft, loopVars, storage, workerVars, deckVars>>

\* the retry button shown while cameraError is set
RetryCamera ==
    /\ ~Busy
    /\ isMountedRef /\ cameraError
    /\ PendingTotal < MaxPending
    /\ StartCamera(isActive)
    /\ UNCHANGED <<clock, serviceVars, propVars, loopVars, storage, workerVars, deckVars>>

(***************************************************************************)
(* Props and lifecycle of the detector (WebcamHandler.tsx 45-51, 82-88,    *)
(* 169-172).  Every change re-renders: the loop effect cancels the pending *)
(* frame and requests one for the new detectionLoop when isActive and not  *)
(* isPaused.                                                               *)
(***************************************************************************)
Activate ==
    /\ ~Busy
    /\ changesLeft > 0
    /\ changesLeft' = changesLeft - 1
    /\ isMountedRef /\ ~isActive
    /\ PendingTotal < MaxPending
    /\ isActive' = TRUE
    /\ StartCamera(TRUE)
    /\ requestRef' = ~isPaused
    /\ UNCHANGED <<clock, serviceVars, isMountedRef, isPaused, gestureMappings,
                   lastDetectionTimeRef, cooldownVars, detectionState,
                   boundingBox, calls, dispatchLog, processed, remoteVars,
                   storage, workerVars, deckVars>>

Deactivate ==
    /\ ~Busy
    /\ changesLeft > 0
    /\ changesLeft' = changesLeft - 1
    /\ isMountedRef /\ isActive
    /\ isActive' = FALSE
    /\ StopCamera
    /\ requestRef' = FALSE
    /\ UNCHANGED <<clock, serviceVars, isMountedRef, isPaused, gestureMappings,
                   lastDetectionTimeRef, cooldownVars, detectionState,
                   boundingBox, calls, dispatchLog, processed, remoteVars,
                   storage, workerVars, deckVars>>

SetPaused(p) ==
    /\ ~Busy
    /\ changesLeft > 0
    /\ changesLeft' = changesLeft - 1
    /\ isMountedRef /\ isPaused # p
    /\ isPaused' = p
    /\ requestRef' = (isActive /\ ~p)
    /\ UNCHANGED <<clock, serviceVars, isMountedRef, isActive, gestureMappings,
                   cameraError, cameraVars, lastDetectionTimeRef, cooldownVars,
                   detectionState, boundingBox, calls, dispatchLog, processed, remoteVars,
                   storage, workerVars, deckVars>>

SetMappings(m) ==
    /\ ~Busy
    /\ changesLeft > 0
    /\ changesLeft' = changesLeft - 1
    /\ isMountedRef /\ gestureMappings # m
    /\ gestureMappings' = m
    /\ storage' = Stringify(m)
    /\ UNCHANGED <<clock, serviceVars, isMountedRef, isActive, isPaused,
                   cameraError, cameraVars, loopVars, deckVars, workerVars>>

\* the cleanups of the mount effect and of the loop effect; the isActive
\* effect has no cleanup.  The <video> element goes with the component.
Unmount ==
    /\ ~Busy
    /\ changesLeft > 0
    /\ changesLeft' = changesLeft - 1
    /\ isMountedRef
    /\ isMountedRef' = FALSE
    /\ requestRef' = FALSE
    /\ srcObject' = 0
    /\ UNCHANGED <<clock, serviceVars, isActive, isPaused, gestureMappings,
                   cameraError, liveStreams, pendingMedia, streamCount,
                   grantsLeft, lastDetectionTimeRef, cooldownVars, detectionState,
                   boundingBox, calls, dispatchLog, processed, remoteVars,
                   storage, workerVars, deckVars>>

Advance(d) ==
    /\ ~Busy
    /\ clock + d <= StartTime + MaxElapsed
    /\ clock' = clock + d
    /\ UNCHANGED <<serviceVars, propVars, cameraError, cameraVars, loopVars,
                   storage, workerVars, deckVars>>

(***************************************************************************)
(* detectionLoop up to its await (WebcamHandler.tsx 120-132) with the      *)
(* synchronous part of identifyGesture and initializeModel                 *)
(* (geminiService.ts 9-11, 63-75).                                         *)
(***************************************************************************)
Call(phase, result, raw) ==
    [phase |-> phase, now |-> clock, mappings |-> gestureMappings,
     result |-> result, raw |-> raw]

\* what recognizeForVideo is given: readyState >= 2 needs a stream on the
\* <video> element, and with one the element may still lag
Frames ==
    {[raw |-> NoHand, ready |-> FALSE]}
      \cup (IF srcObject # 0 THEN [raw : RawOutputs, ready : {TRUE}] ELSE {})

\* a loop that samples on every frame, in place of TooSoon
NeverTooSoon(now) == FALSE

\* "if (now - lastDetectionTimeRef.current < 150) return"
TooSoon(now) == now - lastDetectionTimeRef < SamplingInterval

\* a guard that does not look at isInitializing, in place of InitGuard
GuardWithoutInitializing == gestureRecognizer \/ initError

\* "if (isInitializing || gestureRecognizer || initError) return;"
InitGuard == isInitializing \/ gestureRecognizer \/ initError

\* a guard that does not look at the camera, in place of LoopGuard
GuardWithoutCamera == ~isActive \/ isPaused

\* "if (!isActive || isPaused || cameraError || !videoRef.current) return"
LoopGuard == ~isActive \/ isPaused \/ cameraError \/ ~VideoElement

DetectionTick ==
    /\ ~Busy
    /\ requestRef
    /\ isMountedRef
    /\ requestRef' = TRUE
    /\ IF TooSoon(clock)
          THEN UNCHANGED <<lastDetectionTimeRef, calls, serviceVars>>
          ELSE /\ lastDetectionTimeRef' = clock
               /\ IF LoopGuard
                     THEN UNCHANGED <<calls, serviceVars>>
                     ELSE \/ /\ gestureRecognizer
                             /\ \E f \in Frames :
                                   calls' = calls \cup
                                     {Call("micro", Recognize(f.raw, f.ready), f.raw)}
                             /\ UNCHANGED serviceVars
                          \/ /\ ~gestureRecognizer /\ initError
                             /\ calls' = calls \cup
                                  {Call("micro", ErrorResult("INIT_FAILED"), NoHand)}
                             /\ UNCHANGED serviceVars
                          \/ /\ ~gestureRecognizer /\ ~initError /\ InitGuard
                             /\ calls' = calls \cup
                                  {Call("micro", ErrorResult("LOADING"), NoHand)}
                             /\ UNCHANGED serviceVars
                          \/ /\ ~gestureRecognizer /\ ~initError /\ ~InitGuard
                             /\ isInitializing' = TRUE
                             /\ calls' = calls \cup
                                  {Call("init", ErrorResult("LOADING"), NoHand)}
                             /\ UNCHANGED <<gestureRecognizer, initError>>
    /\ UNCHANGED <<clock, propVars, cameraError, cameraVars, cooldownVars,
                   detectionState, boundingBox, dispatchLog, processed, remoteVars,
                   storage, workerVars, deckVars>>

(***************************************************************************)
(* initializeModel settles (geminiService.ts 33-59); the caller that       *)
(* started it continues in identifyGesture (70-125) with the frame of that *)
(* moment.                                                                 *)
(***************************************************************************)
Continue(c, result, raw) ==
    (calls \ {c}) \cup {[c EXCEPT !.phase = "micro", !.result = result,
                                  !.raw = raw]}

InitSucceeds ==
    /\ ~Busy
    /\ isInitializing
    /\ gestureRecognizer' = TRUE
    /\ isInitializing' = FALSE
    /\ \E c \in calls, f \in Frames :
          /\ c.phase = "init"
          /\ calls' = Continue(c, Recognize(f.raw, f.ready), f.raw)
    /\ UNCHANGED <<clock, initError, propVars, cameraError, cameraVars,
                   requestRef, lastDetectionTimeRef, cooldownVars,
                   detectionState, boundingBox, dispatchLog, processed, remoteVars,
                   storage, workerVars, deckVars>>

InitFails ==
    /\ ~Busy
    /\ isInitializing
    /\ initError' = TRUE
    /\ isInitializing' = FALSE
    /\ \E c \in calls :
          /\ c.phase = "init"
          /\ calls' = Continue(c, ErrorResult("INIT_FAILED"), NoHand)
    /\ UNCHANGED <<clock, gestureRecognizer, propVars, cameraError, cameraVars,
                   requestRef, lastDetectionTimeRef, cooldownVars,
                   detectionState, boundingBox, dispatchLog, processed, remoteVars,
                   storage, workerVars, deckVars>>

(***************************************************************************)
(* detectionLoop after its await (WebcamHandler.tsx 133-165)               *)
(***************************************************************************)
\* gestureMappings[result.gesture] || GestureAction.NONE
MappedAction(m, g) == IF g \in DOMAIN m THEN m[g] ELSE "NONE"

\* reading a property of null throws a TypeError
LookupThrows(m) == m = NullValue

\* "if (now < actionCooldownRef.current) return"
InCooldown(now) == now < actionCooldownRef

\* "result.gesture !== lastGestureRef.current || now > actionCooldownRef.current"
ShouldFire(g, now) == g # lastGestureRef \/ now > actionCooldownRef

\* a cooldown of half the length, in place of CooldownUntil
ShortCooldownUntil(now) == now + ResetAfterMs

\* "actionCooldownRef.current = now + 1000"
CooldownUntil(now) == now + CooldownMs

\* "if (now - actionCooldownRef.current > 500)"
ShouldResetLast(now) == now - actionCooldownRef > ResetAfterMs

\* an updater that shows an ordinary wait, in place of LoadingState
LoadingAsWaiting(p) == [p EXCEPT !.status = "waiting", !.label = "..."]

\* "p => ({ ...p, status: 'loading', label: "..." })"
LoadingState(p) == [p EXCEPT !.status = "loading", !.label = "..."]

\* an updater that leaves the status as it is, in place of ErrorState
ErrorNotShown(p) == [p EXCEPT !.label = "Err"]

\* "p => ({ ...p, status: 'error', label: "Err" })"
ErrorState(p) == [p EXCEPT !.status = "error", !.label = "Err"]

\* "result.gesture.replace('_', ' ')": the first underscore becomes a space
GestureName(g) ==
    CASE g = "Thumb_Up"    -> "Thumb Up"
      [] g = "Thumb_Down"  -> "Thumb Down"
      [] g = "Open_Palm"   -> "Open Palm"
      [] g = "Closed_Fist" -> "Closed Fist"
      [] g = "Pointing_Up" -> "Pointing Up"
      [] OTHER             -> g

Processed(c, fired) ==
    [result |-> c.result, raw |-> c.raw, fired |-> fired,
     live |-> (isMountedRef /\ isActive)]

Dispatch(action, g, now) ==
    Append(dispatchLog, [action |-> action, gesture |-> g, now |-> now,
                         at |-> clock])

HandleResult ==
    \E c \in calls :
      /\ c.phase = "micro"
      /\ calls' = calls \ {c}
      /\ LET r == c.result
             now == c.now
             mapped == MappedAction(c.mappings, r.gesture)
         IN
         IF ~isMountedRef THEN
              /\ processed' = Processed(c, FALSE)
              /\ UNCHANGED <<detectionState, boundingBox, cooldownVars, dispatchLog>>
         ELSE IF r.error = "LOADING" THEN
              /\ detectionState' = LoadingState(detectionState)
              /\ processed' = Processed(c, FALSE)
              /\ UNCHANGED <<boundingBox, cooldownVars, dispatchLog>>
         ELSE IF r.error = "INIT_FAILED" THEN
              /\ detectionState' = ErrorState(detectionState)
              /\ processed' = Processed(c, FALSE)
              /\ UNCHANGED <<boundingBox, cooldownVars, dispatchLog>>
         ELSE IF InCooldown(now) THEN
              /\ processed' = Processed(c, FALSE)
              /\ UNCHANGED <<detectionState, boundingBox, cooldownVars, dispatchLog>>
         ELSE IF r.gesture # "None" /\ LookupThrows(c.mappings) THEN
              \* the TypeError is caught at line 166
              /\ processed' = Processed(c, FALSE)
              /\ UNCHANGED <<detectionState, boundingBox, cooldownVars, dispatchLog>>
         ELSE IF r.gesture # "None" THEN
              IF mapped # "NONE" THEN
                   /\ detectionState' =
                         [gesture |-> r.gesture, action |-> mapped,
                          label |-> mapped, status |-> "success"]
                   /\ boundingBox' =
                         IF r.boundingBox # "null" THEN r.boundingBox ELSE boundingBox
                   /\ IF ShouldFire(r.gesture, now)
                         THEN /\ dispatchLog' = Dispatch(mapped, r.gesture, now)
                              /\ actionCooldownRef' = CooldownUntil(now)
                              /\ lastGestureRef' = r.gesture
                              /\ processed' = Processed(c, TRUE)
                         ELSE /\ processed' = Processed(c, FALSE)
                              /\ UNCHANGED <<cooldownVars, dispatchLog>>
              ELSE
                   /\ detectionState' =
                         [detectionState EXCEPT !.label = GestureName(r.gesture),
                                                !.status = "waiting"]
                   /\ boundingBox' = "null"
                   /\ processed' = Processed(c, FALSE)
                   /\ UNCHANGED <<cooldownVars, dispatchLog>>
         ELSE
              /\ detectionState' =
                    [detectionState EXCEPT !.label = "ready-text",
                                           !.status = "waiting"]
              /\ boundingBox' = "null"
              /\ lastGestureRef' =
                    IF ShouldResetLast(now) THEN "None" ELSE lastGestureRef
              /\ processed' = Processed(c, FALSE)
              /\ UNCHANGED <<actionCooldownRef, dispatchLog>>
      /\ UNCHANGED <<clock, serviceVars, propVars, cameraError, cameraVars,
                     requestRef, lastDetectionTimeRef, remoteVars,
                     storage, workerVars, deckVars>>

Next ==
    \/ \E d \in ClockSteps : Advance(d)
    \/ Activate
    \/ Deactivate
    \/ \E p \in BOOLEAN : SetPaused(p)
    \/ \E m \in MappingChoices : SetMappings(m)
    \/ Unmount
    \/ \E a \in BOOLEAN : MediaResolves(a)
    \/ \E a \in BOOLEAN : MediaFails(a)
    \/ RetryCamera
    \/ DetectionTick
    \/ InitSucceeds
    \/ InitFails
    \/ HandleResult

Spec == Init /\ [][Next]_vars

(***************************************************************************)
(* The App's settings (sw.js 156-163, 246-250, 728-750) with the detector  *)
(* it renders.  The App starts with whatever localStorage holds, and the   *)
(* save effect writes the mapping back after the first render and after    *)
(* every change of it.                                                     *)
(***************************************************************************)
\* an action name that is not in GestureAction, as another version of the
\* program or a hand edit may have left it
UnknownAction == "UNKNOWN_ACTION"

PersistedItems ==
    {Item("absent", <<>>), Item("empty", <<>>), Item("garbage", <<>>),
     Item("null", <<>>),
     Stringify(DEFAULT_MAPPINGS),
     Item("object", <<<<"Thumb_Up", "NEXT">>>>),
     Stringify([DEFAULT_MAPPINGS EXCEPT !["Thumb_Up"] = UnknownAction]),
     Stringify([DEFAULT_MAPPINGS EXCEPT !["None"] = "NEXT"])}

InitApp ==
    /\ clock = AppStartTime
    /\ gestureRecognizer = FALSE
    /\ isInitializing = FALSE
    /\ initError = FALSE
    /\ isMountedRef = TRUE
    /\ isActive = TRUE
    /\ isPaused = FALSE
    /\ \E item \in PersistedItems : gestureMappings = LoadMappings(item)
    /\ storage = Stringify(gestureMappings)
    /\ NoWorker
    /\ InitialDeck
    /\ changesLeft = MaxChanges
    /\ cameraError = FALSE
    /\ requestRef = TRUE
    /\ lastDetectionTimeRef = 0
    /\ lastGestureRef = "None"
    /\ actionCooldownRef = 0
    /\ detectionState = InitialDetectionState
    /\ boundingBox = "null"
    /\ calls = {}
    /\ srcObject = 0
    /\ liveStreams = {}
    /\ pendingMedia = [NoMedia EXCEPT ![TRUE] = 1]
    /\ streamCount = 0
    /\ grantsLeft = MaxGrants
    /\ handlerVersion = 0
    /\ delayRef = BaseDelay
    /\ lastActionTimeRef = 0
    /\ processing = FALSE
    /\ timers = <<>>
    /\ requests = <<>>
    /\ loopsLeft = 0
    /\ waitsLeft = 0
    /\ dispatchLog = <<>>
    /\ processed = NothingProcessed

\* every gesture, in place of EditableGestures
AllGestures == HandGesture

\* "Object.values(HandGesture).filter(g => g !== HandGesture.NONE)"
EditableGestures == HandGesture \ {"None"}

\* "{...prev, [gesture]: e.target.value}"
Spread(prev, gesture, value) ==
    [g \in DOMAIN prev \cup {gesture} |->
        IF g = gesture THEN value ELSE prev[g]]

\* an edit whose change is not written to localStorage, in place of EditMapping
EditWithoutSave(gesture, value) ==
    /\ ~Busy
    /\ isMountedRef
    /\ changesLeft > 0
    /\ changesLeft' = changesLeft - 1
    /\ gestureMappings # NullValue
    /\ gestureMappings' = Spread(gestureMappings, gesture, value)
    /\ UNCHANGED <<clock, serviceVars, isMountedRef, isActive, isPaused,
                   cameraError, cameraVars, loopVars, storage, workerVars, deckVars>>

\* the select of a gesture's row changes (734-737), then the save effect
\* (246-250); the rows read gestureMappings[gesture], which needs an object
EditMapping(gesture, value) ==
    /\ ~Busy
    /\ isMountedRef
    /\ changesLeft > 0
    /\ changesLeft' = changesLeft - 1
    /\ gestureMappings # NullValue
    /\ gestureMappings' = Spread(gestureMappings, gesture, value)
    /\ storage' = Stringify(gestureMappings')
    /\ UNCHANGED <<clock, serviceVars, isMountedRef, isActive, isPaused,
                   cameraError, cameraVars, loopVars, deckVars, workerVars>>

\* the restore-default button (749), then the save effect
RestoreDefaults ==
    /\ ~Busy
    /\ isMountedRef
    /\ changesLeft > 0
    /\ changesLeft' = changesLeft - 1
    /\ gestureMappings # NullValue
    /\ gestureMappings' = DEFAULT_MAPPINGS
    /\ storage' = Stringify(gestureMappings')
    /\ UNCHANGED <<clock, serviceVars, isMountedRef, isActive, isPaused,
                   cameraError, cameraVars, loopVars, deckVars, workerVars>>

NextApp ==
    \/ \E g \in EditableGestures \cap Categories, a \in EditActions :
          EditMapping(g, a)
    \/ RestoreDefaults
    \/ \E d \in ClockSteps : Advance(d)
    \/ \E a \in BOOLEAN : MediaResolves(a)
    \/ DetectionTick
    \/ InitSucceeds
    \/ HandleResult

SpecApp == InitApp /\ [][NextApp]_vars

(***************************************************************************)
(* Properties of the local-model detection loop                           *)
(***************************************************************************)
LastFired == dispatchLog[Len(dispatchLog)]

\* the result of call c passes the confidence filter and maps to an action
Qualifying(c) ==
    /\ c.result.error = "none"
    /\ c.result.gesture # "None"
    /\ MappedAction(c.mappings, c.result.gesture) # "NONE"

\* the continuation of call c runs in this step, in a mounted detector
Handles(c) == c \in calls /\ c.phase = "micro" /\ isMountedRef

FiresOnce == Len(dispatchLog') = Len(dispatchLog) + 1
FiresNothing == dispatchLog' = dispatchLog

C2_ChangedGestureFiresAtOnce ==
    [][\A c \in calls :
          (/\ Handles(c) /\ Qualifying(c)
           /\ dispatchLog # <<>>
           /\ c.result.gesture # LastFired.gesture)
          => FiresOnce]_vars

\* C3: a recognizer output with a score below the threshold never causes an
\* onGestureDetected call, whatever its category and the cooldown state; an
\* output with a score equal to the threshold passes the filter: its category
\* is the result's gesture, and it is dispatched when it maps to an action and
\* its tick lies after the cooldown.
C3_ThresholdFilter ==
    [][\A c \in calls :
          (c.phase = "micro" /\ c.raw.name \in HandGesture)
          => /\ (c.raw.score < ConfidenceThreshold) => FiresNothing
             /\ (c.raw.score = ConfidenceThreshold)
                  => /\ c.result.gesture = c.raw.name
                     /\ (/\ isMountedRef /\ Qualifying(c)
                         /\ c.now > actionCooldownRef) => FiresOnce]_vars

\* C3 witness: an output on the threshold was dispatched, and after its
\* cooldown an output just below the threshold was handled without a call.
C3_Witness ==
    /\ Len(dispatchLog) = 1
    /\ processed.raw.name = "Thumb_Up"
    /\ processed.raw.score = ConfidenceThreshold - 1
    /\ ~processed.fired
    /\ processed.live
    /\ clock > actionCooldownRef

\* C4: at most one identifyGesture call is outstanding at any moment, in the
\* local-model loop (calls) and in the remote-API loop (requests).
C4_AtMostOneOutstandingCall == Cardinality(calls) + Len(requests) <= 1

(***************************************************************************)
(* The remote-API WebcamHandler (WebcamHandler.tsx 252-629).               *)
(*                                                                         *)
(* It shares the names of the local-model variant; isMountedRef stands for *)
(* "the component is mounted" (this variant keeps no such ref), requestRef *)
(* for a pending drawOverlay frame (animationRef).  The classifier is the  *)
(* remote call behind identifyGesture(base64Image): its result is an input.*)
(***************************************************************************)
RemoteDetectionState ==
    [action |-> "NONE", label |-> "preparing-text", status |-> "waiting"]

\* the values an analyzeLoop callback closes over
LoopOf(active, paused, error, handler) ==
    [isActive |-> active, isPaused |-> paused, cameraError |-> error,
     handler |-> handler]

Timer(loop, due) == [loop |-> loop, due |-> due, isRef |-> TRUE]

\* a finally that sets no timer, in place of SetTimer
TimerNotSet(ts, loop, delay) == ts

\* timeoutRef.current = window.setTimeout(analyzeLoop, delay)
SetTimer(ts, loop, delay) ==
    Append([i \in 1..Len(ts) |-> [ts[i] EXCEPT !.isRef = FALSE]],
           Timer(loop, clock + delay))

RemoveAt(q, i) == [j \in 1..(Len(q) - 1) |-> IF j < i THEN q[j] ELSE q[j + 1]]

\* "if (timeoutRef.current) clearTimeout(timeoutRef.current)"
ClearTimeout(ts) ==
    IF \E i \in 1..Len(ts) : ts[i].isRef
      THEN RemoveAt(ts, CHOOSE i \in 1..Len(ts) : ts[i].isRef)
      ELSE ts

InitRemote ==
    /\ clock = StartTime
    /\ gestureRecognizer = FALSE
    /\ isInitializing = FALSE
    /\ initError = FALSE
    /\ isMountedRef = TRUE
    /\ isActive = TRUE
    /\ isPaused = FALSE
    /\ gestureMappings = DEFAULT_MAPPINGS
    /\ changesLeft = MaxRemoteChanges
    /\ cameraError = FALSE
    /\ requestRef = TRUE
    /\ lastDetectionTimeRef = 0
    /\ lastGestureRef = "None"
    /\ actionCooldownRef = 0
    /\ detectionState = RemoteDetectionState
    /\ boundingBox = "null"
    /\ calls = {}
    /\ srcObject = 0
    /\ liveStreams = {}
    /\ pendingMedia = [NoMedia EXCEPT ![TRUE] = 1]
    /\ streamCount = 0
    /\ grantsLeft = MaxRemoteGrants
    /\ handlerVersion = 0
    /\ delayRef = BaseDelay
    /\ lastActionTimeRef = 0
    /\ processing = FALSE
    \* the init effect has called analyzeLoop, which found no ready video
    /\ timers = <<[loop |-> LoopOf(TRUE, FALSE, FALSE, 0),
                   due |-> StartTime + NotReadyDelay, isRef |-> TRUE]>>
    /\ requests = <<>>
    /\ loopsLeft = MaxRemoteLoops
    /\ waitsLeft = MaxRemoteWaits
    /\ dispatchLog = <<>>
    /\ processed = NothingProcessed
    /\ storage = Stringify(gestureMappings)
    /\ NoWorker
    /\ InitialDeck

localVars ==
    <<serviceVars, gestureMappings, lastDetectionTimeRef, cooldownVars, calls>>

\* the overlay effect (416-423) runs again when drawOverlay changes, which it
\* does with boundingBox, detectionState.status and processing
OverlayEffect ==
    requestRef' =
      IF \/ boundingBox' # boundingBox
         \/ detectionState'.status # detectionState.status
         \/ processing' # processing
        THEN isMountedRef /\ isActive
        ELSE requestRef

\* analyzeLoop up to its await (425-462), called as the callback loop with the
\* timers ts pending; video tells whether videoRef.current is an element
AnalyzeLoop(loop, ts, video) ==
    IF ~loop.isActive \/ loop.isPaused \/ loop.cameraError
      THEN /\ timers' = ts
           /\ UNCHANGED <<requests, loopsLeft, processing,
                          detectionState, boundingBox>>
      ELSE \E ready \in (IF video /\ srcObject # 0 THEN BOOLEAN ELSE {FALSE}),
              hidden \in BOOLEAN :
             IF ~ready \/ hidden
               THEN /\ ~ready => ~hidden
                    /\ loopsLeft > 0
                    /\ loopsLeft' = loopsLeft - 1
                    /\ timers' = SetTimer(ts, loop, IF ~ready THEN NotReadyDelay
                                                               ELSE HiddenDelay)
                    /\ UNCHANGED <<requests, processing, detectionState,
                                   boundingBox>>
               ELSE /\ loopsLeft > 0
                    /\ loopsLeft' = loopsLeft - 1
                    /\ timers' = ts
                    /\ processing' = TRUE
                    /\ detectionState' =
                          [detectionState EXCEPT !.status = "processing"]
                    /\ boundingBox' = "null"
                    /\ requests' = Append(requests,
                          [nextDelay |-> delayRef, loop |-> loop,
                           waited |-> FALSE])

\* the init effect (537-546) after a render that changed one of isActive,
\* isPaused, cameraError, analyzeLoop: cleanup, then the effect
InitLoopEffect(active, paused, error, handler, video) ==
    IF active /\ ~paused /\ ~error
      THEN AnalyzeLoop(LoopOf(active, paused, error, handler),
                       ClearTimeout(timers), video)
      ELSE /\ timers' = ClearTimeout(timers)
           /\ UNCHANGED <<requests, loopsLeft, processing, detectionState,
                          boundingBox>>

\* startCamera up to its await (300-303)
RemoteStartCamera ==
    /\ cameraError' = FALSE
    /\ pendingMedia' = [pendingMedia EXCEPT ![TRUE] = @ + 1]
    /\ UNCHANGED <<streamCount, grantsLeft>>

\* "stream.getTracks().forEach(track => track.stop())" on the attached stream
StopTracks(attached, live) == live \ {attached}

StopAttached == liveStreams' = StopTracks(srcObject, liveStreams)

RemoteActivate ==
    /\ changesLeft > 0
    /\ changesLeft' = changesLeft - 1
    /\ isMountedRef /\ ~isActive
    /\ PendingTotal < MaxPending
    /\ isActive' = TRUE
    \* cleanup of the camera effect, then startCamera
    /\ IF VideoElement THEN StopAttached ELSE UNCHANGED liveStreams
    /\ UNCHANGED srcObject
    /\ RemoteStartCamera
    /\ InitLoopEffect(TRUE, isPaused, FALSE, handlerVersion, isMountedRef)
    /\ requestRef' = TRUE
    /\ UNCHANGED <<clock, isMountedRef, isPaused, handlerVersion, delayRef,
                   lastActionTimeRef, dispatchLog, processed, localVars>>
    /\ UNCHANGED <<waitsLeft, storage, workerVars, deckVars>>

RemoteDeactivate ==
    /\ changesLeft > 0
    /\ changesLeft' = changesLeft - 1
    /\ isMountedRef /\ isActive
    /\ isActive' = FALSE
    /\ IF VideoElement THEN StopAttached ELSE UNCHANGED liveStreams
    /\ InitLoopEffect(FALSE, isPaused, cameraError, handlerVersion, VideoElement)
    /\ requestRef' = FALSE
    /\ UNCHANGED <<clock, isMountedRef, isPaused, cameraError, srcObject,
                   pendingMedia, streamCount, grantsLeft, handlerVersion,
                   delayRef, lastActionTimeRef, dispatchLog, processed,
                   localVars>>
    /\ UNCHANGED <<waitsLeft, storage, workerVars, deckVars>>

RemoteSetPaused(p) ==
    /\ changesLeft > 0
    /\ changesLeft' = changesLeft - 1
    /\ isMountedRef /\ isPaused # p
    /\ isPaused' = p
    /\ InitLoopEffect(isActive, p, cameraError, handlerVersion, VideoElement)
    /\ OverlayEffect
    /\ UNCHANGED <<clock, isMountedRef, isActive, cameraError, cameraVars,
                   handlerVersion, delayRef, lastActionTimeRef, dispatchLog,
                   processed, localVars>>
    /\ UNCHANGED <<waitsLeft, storage, workerVars, deckVars>>

\* the parent passes a new onGestureDetected (App's handleGesture is made anew
\* when isPaused or slides.length changes): analyzeLoop is made anew
RemoteHandlerChanges ==
    /\ changesLeft > 0
    /\ changesLeft' = changesLeft - 1
    /\ isMountedRef
    /\ handlerVersion' = handlerVersion + 1
    /\ InitLoopEffect(isActive, isPaused, cameraError, handlerVersion + 1,
                      VideoElement)
    /\ OverlayEffect
    /\ UNCHANGED <<clock, isMountedRef, isActive, isPaused, cameraError,
                   cameraVars, delayRef, lastActionTimeRef, dispatchLog,
                   processed, localVars>>
    /\ UNCHANGED <<waitsLeft, storage, workerVars, deckVars>>

\* the cleanups of the three effects (335-342, 420-422, 543-545).  Whether
\* videoRef.current still holds the element when the camera cleanup runs
\* depends on the React version: both outcomes are kept.
RemoteUnmount ==
    /\ changesLeft > 0
    /\ changesLeft' = changesLeft - 1
    /\ isMountedRef
    /\ isMountedRef' = FALSE
    /\ \/ StopAttached
       \/ UNCHANGED liveStreams
    /\ srcObject' = 0
    /\ timers' = ClearTimeout(timers)
    /\ requestRef' = FALSE
    /\ UNCHANGED <<clock, isActive, isPaused, cameraError, pendingMedia,
                   streamCount, grantsLeft, handlerVersion, delayRef,
                   lastActionTimeRef, processing, requests, loopsLeft,
                   detectionState, boundingBox, dispatchLog, processed,
                   localVars>>
    /\ UNCHANGED <<waitsLeft, storage, workerVars, deckVars>>

\* startCamera after its await (312-317)
RemoteMediaResolves ==
    /\ pendingMedia[TRUE] > 0
    /\ grantsLeft > 0
    /\ grantsLeft' = grantsLeft - 1
    /\ pendingMedia' = [pendingMedia EXCEPT ![TRUE] = @ - 1]
    /\ streamCount' = streamCount + 1
    /\ liveStreams' = liveStreams \cup {streamCount + 1}
    /\ srcObject' = IF VideoElement THEN streamCount + 1 ELSE srcObject
    /\ UNCHANGED <<clock, propVars, cameraError, requestRef, detectionState,
                   boundingBox, dispatchLog, processed, remoteVars, localVars,
                   storage, workerVars, deckVars>>

\* the catch of startCamera (318-321); the error panel replaces the <video>
\* element, and the init effect runs again for the new cameraError
RemoteMediaFails ==
    /\ pendingMedia[TRUE] > 0
    /\ pendingMedia' = [pendingMedia EXCEPT ![TRUE] = @ - 1]
    /\ IF isMountedRef
          THEN /\ cameraError' = TRUE
               /\ srcObject' = 0
               /\ IF cameraError
                     THEN UNCHANGED <<timers, requests, loopsLeft, processing,
                                      detectionState, boundingBox>>
                     ELSE InitLoopEffect(isActive, isPaused, TRUE,
                                         handlerVersion, FALSE)
          ELSE UNCHANGED <<cameraError, srcObject, timers, requests, loopsLeft,
                           processing, detectionState, boundingBox>>
    /\ UNCHANGED <<clock, propVars, liveStreams, streamCount, grantsLeft,
                   requestRef, handlerVersion, delayRef, lastActionTimeRef,
                   dispatchLog, processed, localVars>>
    /\ UNCHANGED <<waitsLeft, storage, workerVars, deckVars>>

\* the retry button of the error panel (567)
RemoteRetryCamera ==
    /\ isMountedRef /\ cameraError
    /\ PendingTotal < MaxPending
    /\ RemoteStartCamera
    /\ InitLoopEffect(isActive, isPaused, FALSE, handlerVersion, TRUE)
    /\ OverlayEffect
    /\ UNCHANGED <<clock, propVars, srcObject, liveStreams, handlerVersion,
                   delayRef, lastActionTimeRef, dispatchLog, processed,
                   localVars>>
    /\ UNCHANGED <<waitsLeft, storage, workerVars, deckVars>>

\* drawOverlay as the animation-frame callback (352-414)
RemoteOverlayTick ==
    /\ requestRef
    /\ requestRef' = VideoElement
    /\ UNCHANGED <<clock, propVars, cameraError, cameraVars, detectionState,
                   boundingBox, dispatchLog, processed, remoteVars, localVars,
                   storage, workerVars, deckVars>>

\* a timer set by analyzeLoop fires
TimerFires(i) ==
    /\ i \in 1..Len(timers)
    /\ clock >= timers[i].due
    /\ AnalyzeLoop(timers[i].loop, RemoveAt(timers, i), VideoElement)
    /\ OverlayEffect
    /\ UNCHANGED <<clock, propVars, cameraError, cameraVars, handlerVersion,
                   delayRef, lastActionTimeRef, dispatchLog, processed,
                   localVars>>
    /\ UNCHANGED <<waitsLeft, storage, workerVars, deckVars>>

\* time passes until the next timer is due
AwaitTimer ==
    /\ timers # <<>>
    /\ LET due == CHOOSE d \in {timers[i].due : i \in 1..Len(timers)} :
                     \A j \in 1..Len(timers) : d <= timers[j].due
       IN /\ due > clock
          /\ due <= StartTime + MaxRemoteElapsed
          /\ clock' = due
    /\ UNCHANGED <<propVars, cameraError, cameraVars, requestRef,
                   detectionState, boundingBox, dispatchLog, processed,
                   remoteVars, localVars, storage, workerVars, deckVars>>

\* time passes while identifyGesture calls are in flight
Latency(d) ==
    /\ \E i \in 1..Len(requests) : ~requests[i].waited
    /\ waitsLeft > 0
    /\ waitsLeft' = waitsLeft - 1
    /\ clock + d <= StartTime + MaxRemoteElapsed
    /\ clock' = clock + d
    /\ requests' = [i \in 1..Len(requests) |->
                      [requests[i] EXCEPT !.waited = TRUE]]
    /\ UNCHANGED <<propVars, cameraError, cameraVars, requestRef,
                   detectionState, boundingBox, dispatchLog, processed,
                   handlerVersion, delayRef, lastActionTimeRef, processing,
                   timers, loopsLeft, localVars, storage, workerVars, deckVars>>

\* the results of the remote classifier in the model
RemoteResults ==
    {ErrorResult("QUOTA_EXCEEDED"),
     [NoneResult(0) EXCEPT !.action = "NEXT", !.boundingBox = "box"],
     NoneResult(0)}

\* the doubling without its cap, in place of Backoff
UncappedBackoff(nextDelay) == nextDelay * 2

\* "Math.min(nextDelay * 2, 30000)"
Backoff(nextDelay) == IF nextDelay * 2 < MaxDelay THEN nextDelay * 2 ELSE MaxDelay

\* a loop without cooldown, in place of IsCoolingDown
NeverCoolingDown(now) == FALSE

\* "now - lastActionTimeRef.current < COOLDOWN_MS"
IsCoolingDown(now) == now - lastActionTimeRef < COOLDOWN_MS

\* the delay analyzeLoop leaves in nextDelay for result r (464-474)
NextDelay(r, nextDelay) ==
    IF r.error = "QUOTA_EXCEEDED" THEN Backoff(nextDelay) ELSE BaseDelay

\* a quota error shown as an ordinary wait, in place of RateLimitState
RateLimitAsWaiting ==
    [action |-> "NONE", label |-> "quota-text", status |-> "waiting"]

\* the DetectionState set for a QUOTA_EXCEEDED result (466-470)
RateLimitState ==
    [action |-> "NONE", label |-> "quota-text", status |-> "rate_limit"]

\* "result.action !== GestureAction.NONE && !isCoolingDown" in the else arm
Fires(r, now) ==
    /\ r.error # "QUOTA_EXCEEDED"
    /\ r.action # "NONE"
    /\ ~IsCoolingDown(now)

\* analyzeLoop after its await, for the call requests[i] resolving with r
\* (464-533).  State setters do nothing once the component is unmounted.
\* rerender tells that the callback changed a dependency of the init effect
\* in a way that ends the loop: its cleanup clears the timer set in finally.
AnalysisEffects(i, r, rerender) ==
    LET c == requests[i]
        now == clock
        fires == Fires(r, now)
        set == SetTimer(timers, c.loop, NextDelay(r, c.nextDelay))
    IN /\ requests' = RemoveAt(requests, i)
       /\ delayRef' = NextDelay(r, c.nextDelay)
       /\ timers' = IF rerender THEN ClearTimeout(set) ELSE set
       /\ lastActionTimeRef' = IF fires THEN now ELSE lastActionTimeRef
       /\ dispatchLog' =
             IF fires THEN Dispatch(r.action, "None", now) ELSE dispatchLog
       /\ processed' =
             [result |-> r, raw |-> NoHand, fired |-> fires,
              live |-> (isMountedRef /\ isActive)]
       /\ IF ~isMountedRef
             THEN UNCHANGED <<detectionState, boundingBox, processing>>
             ELSE /\ processing' = FALSE
                  /\ IF r.error = "QUOTA_EXCEEDED" THEN
                          /\ detectionState' = RateLimitState
                          /\ UNCHANGED boundingBox
                     ELSE IF fires THEN
                          /\ detectionState' =
                                [action |-> r.action, label |-> r.action,
                                 status |-> "success"]
                          /\ boundingBox' =
                                IF r.boundingBox # "null"
                                  THEN r.boundingBox ELSE boundingBox
                     ELSE
                          /\ detectionState' =
                                [detectionState EXCEPT
                                   !.label = IF IsCoolingDown(now)
                                               THEN "wait-text"
                                               ELSE "ready-text",
                                   !.status = "waiting"]
                          /\ UNCHANGED boundingBox

\* the continuation with onGestureDetected left to the parent
AnalysisResolves(i, r) ==
    /\ i \in 1..Len(requests)
    /\ AnalysisEffects(i, r, FALSE)
    /\ OverlayEffect
    /\ UNCHANGED <<clock, propVars, cameraError, cameraVars, handlerVersion,
                   loopsLeft, localVars>>
    /\ UNCHANGED <<waitsLeft, storage, workerVars, deckVars>>

\* identifyGesture rejects: the catch and the finally of analyzeLoop (518-533)
AnalysisThrows(i) ==
    /\ i \in 1..Len(requests)
    /\ LET c == requests[i]
       IN /\ requests' = RemoveAt(requests, i)
          /\ delayRef' = c.nextDelay
          /\ timers' = SetTimer(timers, c.loop, c.nextDelay)
          /\ processed' =
                [result |-> ErrorResult("throws"), raw |-> NoHand,
                 fired |-> FALSE, live |-> (isMountedRef /\ isActive)]
          /\ IF ~isMountedRef
                THEN UNCHANGED <<detectionState, processing>>
                ELSE /\ processing' = FALSE
                     /\ detectionState' =
                           [detectionState EXCEPT !.status = "error",
                                                  !.label = "error-text"]
    /\ UNCHANGED boundingBox
    /\ OverlayEffect
    /\ UNCHANGED <<clock, propVars, cameraError, cameraVars, handlerVersion,
                   lastActionTimeRef, loopsLeft, dispatchLog, localVars>>
    /\ UNCHANGED <<waitsLeft, storage, workerVars, deckVars>>

\* onGestureDetected throws (499): the success state is set and the time of
\* the action recorded before the call, the catch then sets the error status
\* on it, and the finally sets the timer (518-533)
CallbackThrows(i, r) ==
    /\ i \in 1..Len(requests)
    /\ Fires(r, clock)
    /\ LET c == requests[i]
           now == clock
       IN /\ requests' = RemoveAt(requests, i)
          /\ delayRef' = NextDelay(r, c.nextDelay)
          /\ timers' = SetTimer(timers, c.loop, NextDelay(r, c.nextDelay))
          /\ lastActionTimeRef' = now
          /\ dispatchLog' = Dispatch(r.action, "None", now)
          /\ processed' =
                [result |-> r, raw |-> NoHand, fired |-> TRUE,
                 live |-> (isMountedRef /\ isActive)]
          /\ IF ~isMountedRef
                THEN UNCHANGED <<detectionState, boundingBox, processing>>
                ELSE /\ processing' = FALSE
                     /\ detectionState' =
                           [action |-> r.action, label |-> "error-text",
                            status |-> "error"]
                     /\ boundingBox' =
                           IF r.boundingBox # "null"
                             THEN r.boundingBox ELSE boundingBox
    /\ OverlayEffect
    /\ UNCHANGED <<clock, propVars, cameraError, cameraVars, handlerVersion,
                   loopsLeft, localVars>>
    /\ UNCHANGED <<waitsLeft, storage, workerVars, deckVars>>

NextRemote ==
    \/ RemoteActivate
    \/ RemoteDeactivate
    \/ \E p \in BOOLEAN : RemoteSetPaused(p)
    \/ RemoteHandlerChanges
    \/ RemoteUnmount
    \/ RemoteMediaResolves
    \/ RemoteMediaFails
    \/ RemoteRetryCamera
    \/ RemoteOverlayTick
    \/ \E i \in 1..3 : TimerFires(i)
    \/ AwaitTimer
    \/ \E d \in Latencies : Latency(d)
    \/ \E i \in 1..3, r \in RemoteResults : AnalysisResolves(i, r)
    \/ \E i \in 1..3 : AnalysisThrows(i)
    \/ \E i \in 1..3, r \in RemoteResults : CallbackThrows(i, r)

SpecRemote == InitRemote /\ [][NextRemote]_vars

(***************************************************************************)
(* The App of App.tsx with the remote-API WebcamHandler it renders.        *)
(*                                                                         *)
(* isActive is the App's isCameraActive, isPaused its isPaused, and        *)
(* onGestureDetected its handleGesture.  handleGesture is made anew when   *)
(* isPaused or slides.length changes (141-163, 123-125), so an analyzeLoop *)
(* closure holds, with its own isPaused, the slides.length its             *)
(* handleGesture closes over: handlerVersion is that slides.length.        *)
(***************************************************************************)
Min(a, b) == IF a < b THEN a ELSE b
Max(a, b) == IF a > b THEN a ELSE b

\* the effect "setZoomLevel(1)" on [currentSlideIndex] (86-89)
ZoomAfterSlide(index) == IF index # currentSlideIndex THEN InitialZoom ELSE zoomLevel

\* "setCurrentSlideIndex((prev) => Math.min(prev + 1, slides.length - 1))"
\* with the slides.length of the closure, then the zoom effect
nextSlide(length) ==
    /\ currentSlideIndex' = Min(currentSlideIndex + 1, length - 1)
    /\ zoomLevel' = ZoomAfterSlide(currentSlideIndex')
    /\ UNCHANGED <<volume, isDarkMode>>

\* "setCurrentSlideIndex((prev) => Math.max(prev - 1, 0))"
prevSlide ==
    /\ currentSlideIndex' = Max(currentSlideIndex - 1, 0)
    /\ zoomLevel' = ZoomAfterSlide(currentSlideIndex')
    /\ UNCHANGED <<volume, isDarkMode>>

\* a volume without its limits, in place of handleVolume
handleVolumeUnlimited(change) ==
    /\ volume' = IF change = "up" THEN volume + VolumeStep
                                  ELSE volume - VolumeStep
    /\ UNCHANGED <<currentSlideIndex, zoomLevel, isDarkMode>>

\* handleVolume (131-139)
handleVolume(change) ==
    /\ volume' = IF change = "up" THEN Min(volume + VolumeStep, MaxVolume)
                                  ELSE Max(volume - VolumeStep, 0)
    /\ UNCHANGED <<currentSlideIndex, zoomLevel, isDarkMode>>

\* a zoom that does not wrap, in place of ZoomIn
ZoomInWithoutWrap(prev) == prev + ZoomStep

\* "prev => (prev >= 2.5 ? 1 : prev + 0.5)"
ZoomIn(prev) == IF prev >= MaxZoom THEN InitialZoom ELSE prev + ZoomStep

\* "prev => Math.max(1, prev - 0.5)"
ZoomOut(prev) == Max(InitialZoom, prev - ZoomStep)

\* the switch of handleGesture (149-162); an action without a case does
\* nothing
HandleAction(action, length) ==
    CASE action \in {"NEXT", "SPACE"} -> nextSlide(length)
      [] action = "PREV" -> prevSlide
      [] action = "VOL_UP" -> handleVolume("up")
      [] action = "VOL_DOWN" -> handleVolume("down")
      [] action = "CHANGE_THEME" ->
            /\ isDarkMode' = ~isDarkMode
            /\ UNCHANGED <<currentSlideIndex, volume, zoomLevel>>
      [] action = "ZOOM_IN" ->
            /\ zoomLevel' = ZoomIn(zoomLevel)
            /\ UNCHANGED <<currentSlideIndex, volume, isDarkMode>>
      [] action = "ZOOM_OUT" ->
            /\ zoomLevel' = ZoomOut(zoomLevel)
            /\ UNCHANGED <<currentSlideIndex, volume, isDarkMode>>
      [] OTHER -> UNCHANGED <<currentSlideIndex, volume, zoomLevel, isDarkMode>>

\* handleGesture of App.tsx (141-163) for a callback that closes over the
\* isPaused paused and the slides.length length
handleGesture(paused, length, action) ==
    IF action = "PAUSE"
      THEN /\ isPaused' = TRUE
           /\ UNCHANGED <<currentSlideIndex, volume, zoomLevel, isDarkMode>>
      ELSE /\ UNCHANGED isPaused
           /\ IF paused
                 THEN UNCHANGED <<currentSlideIndex, volume, zoomLevel, isDarkMode>>
                 ELSE HandleAction(action, length)

AppMounted ==
    /\ clock = StartTime
    /\ gestureRecognizer = FALSE
    /\ isInitializing = FALSE
    /\ initError = FALSE
    /\ isMountedRef = TRUE
    /\ isActive = TRUE
    /\ isPaused = FALSE
    /\ gestureMappings = DEFAULT_MAPPINGS
    /\ changesLeft = MaxRemoteChanges
    /\ cameraError = FALSE
    /\ requestRef = TRUE
    /\ lastDetectionTimeRef = 0
    /\ lastGestureRef = "None"
    /\ actionCooldownRef = 0
    /\ detectionState = RemoteDetectionState
    /\ boundingBox = "null"
    /\ calls = {}
    /\ srcObject = 0
    /\ liveStreams = {}
    /\ pendingMedia = [NoMedia EXCEPT ![TRUE] = 1]
    /\ streamCount = 0
    /\ grantsLeft = MaxGrants
    /\ handlerVersion = DemoSlideCount
    /\ delayRef = BaseDelay
    /\ lastActionTimeRef = 0
    /\ processing = FALSE
    /\ timers = <<[loop |-> LoopOf(TRUE, FALSE, FALSE, DemoSlideCount),
                   due |-> StartTime + NotReadyDelay, isRef |-> TRUE]>>
    /\ requests = <<>>
    /\ loopsLeft = MaxRemoteLoops
    /\ waitsLeft = MaxRemoteWaits
    /\ dispatchLog = <<>>
    /\ processed = NothingProcessed
    /\ storage = Stringify(gestureMappings)
    /\ InitialDeck

\* the App as mounted, with no service worker registered
InitAppRemote == AppMounted /\ NoWorker

\* analyzeLoop after its await, with handleGesture as the callback of line
\* 506: the callback is the one the loop of the call closes over.  When it
\* pauses the App, the init effect of the WebcamHandler is cleaned up.
AppAnalysisResolves(i, r) ==
    /\ i \in 1..Len(requests)
    /\ LET c == requests[i]
           fires == Fires(r, clock)
       IN /\ AnalysisEffects(i, r, fires /\ r.action = "PAUSE" /\ ~isPaused)
          /\ IF fires
                THEN handleGesture(c.loop.isPaused, c.loop.handler, r.action)
                ELSE UNCHANGED <<isPaused, currentSlideIndex, volume,
                                 zoomLevel, isDarkMode>>
    /\ OverlayEffect
    /\ UNCHANGED <<clock, isMountedRef, isActive, changesLeft, cameraError,
                   cameraVars, handlerVersion, loopsLeft, localVars>>
    /\ UNCHANGED <<waitsLeft, storage, workerVars, slidesLength>>

\* handleKeyDown (166-191); the listener is registered anew after every
\* render that changed isPaused or slides.length
KeyDown(key) ==
    IF key \in {"f", "F"} THEN UNCHANGED vars
    ELSE IF isPaused /\ key # "Escape" THEN UNCHANGED vars
    ELSE IF key = "Escape" THEN
         IF isPaused THEN RemoteSetPaused(FALSE) ELSE UNCHANGED vars
    ELSE /\ CASE key \in {"ArrowRight", "ArrowDown", " ", "PageDown"} ->
                    nextSlide(slidesLength)
              [] key \in {"ArrowLeft", "ArrowUp", "PageUp"} -> prevSlide
              [] OTHER -> UNCHANGED <<currentSlideIndex, volume, zoomLevel,
                                      isDarkMode>>
         /\ UNCHANGED <<clock, serviceVars, propVars, cameraError, cameraVars,
                        loopVars, storage, workerVars, slidesLength>>

\* the button of the pause overlay (518)
ResumeButton ==
    /\ isPaused
    /\ RemoteSetPaused(FALSE)

\* handleFileUpload sets its slides (286-289, 309-312); a deck of another
\* length makes nextSlide, handleGesture and analyzeLoop anew
UploadDeck(length) ==
    /\ changesLeft > 0
    /\ changesLeft' = changesLeft - 1
    /\ isMountedRef /\ isActive
    /\ slidesLength' = length
    /\ currentSlideIndex' = 0
    /\ zoomLevel' = ZoomAfterSlide(0)
    /\ handlerVersion' = length
    /\ IF length # slidesLength
          THEN /\ InitLoopEffect(isActive, isPaused, cameraError, length,
                                 VideoElement)
               /\ OverlayEffect
          ELSE UNCHANGED <<timers, requests, loopsLeft, processing,
                           detectionState, boundingBox, requestRef>>
    /\ UNCHANGED <<clock, isMountedRef, isActive, isPaused, cameraError,
                   cameraVars, delayRef, lastActionTimeRef, dispatchLog,
                   processed, localVars>>
    /\ UNCHANGED <<waitsLeft, storage, workerVars, volume, isDarkMode>>

\* the results of the remote classifier in this specification
AppResults ==
    {NoneResult(0)} \cup {[NoneResult(0) EXCEPT !.action = a] : a \in AppActions}

NextAppRemote ==
    \/ ResumeButton
    \/ \E key \in Keys : KeyDown(key)
    \/ \E length \in UploadLengths : UploadDeck(length)
    \/ RemoteMediaResolves
    \/ \E i \in 1..3 : TimerFires(i)
    \/ AwaitTimer
    \/ \E d \in Latencies : Latency(d)
    \/ \E i \in 1..3, r \in AppResults : AppAnalysisResolves(i, r)

SpecAppRemote == InitAppRemote /\ [][NextAppRemote]_vars

(***************************************************************************)
(* The handlers of App.tsx under any sequence of gesture callbacks, keys,  *)
(* button presses and deck uploads.  The detector is the environment: it   *)
(* calls onGestureDetected with any action, through a handleGesture that   *)
(* was made while the App was not paused (analyzeLoop issues a call only   *)
(* past its guard) and for the current deck or the first one.              *)
(***************************************************************************)
DeckActions ==
    {"NEXT", "PREV", "SPACE", "VOL_UP", "VOL_DOWN", "CHANGE_THEME",
     "ZOOM_IN", "ZOOM_OUT", "PAUSE"}

\* onGestureDetected(action) with the handleGesture made for slides.length
\* length; a PAUSE re-renders the detector with isPaused = true
GestureDelivered(action, length) ==
    /\ isMountedRef /\ isActive
    /\ IF action = "PAUSE"
          THEN IF isPaused THEN UNCHANGED vars ELSE RemoteSetPaused(TRUE)
          ELSE /\ handleGesture(FALSE, length, action)
               /\ UNCHANGED <<clock, serviceVars, isMountedRef, isActive,
                              gestureMappings, changesLeft, cameraError,
                              cameraVars, loopVars, storage, workerVars, slidesLength>>

NextDeck ==
    \/ ResumeButton
    \/ \E key \in Keys : KeyDown(key)
    \/ \E length \in UploadLengths : UploadDeck(length)
    \/ \E action \in DeckActions, stale \in BOOLEAN :
          GestureDelivered(action, IF stale THEN DemoSlideCount ELSE slidesLength)

SpecDeck == InitAppRemote /\ [][NextDeck]_vars

(***************************************************************************)
(* The life of the service worker's registration.  The browser is the      *)
(* environment: versions of the script are deployed one after the other,   *)
(* a version is installed while no other one is being installed or         *)
(* activated, the worker that is replaced is terminated before the         *)
(* activate event, and fetch events wait for the end of the activation.    *)
(* The fetch listener opens no cache but CACHE_NAME of the active worker,  *)
(* which the install listener has made, so it leaves the set of caches as  *)
(* it is.                                                                  *)
(***************************************************************************)
appVars ==
    <<clock, serviceVars, propVars, cameraError, cameraVars, loopVars,
      storage, deckVars>>

Settled == waitingWorker = NoVersion /\ workerState = "activated"

\* the install listener (12-19): caches.open(CACHE_NAME) makes the cache,
\* cache.addAll resolves, and skipWaiting() lets the worker activate
InstallSucceeds(version) ==
    /\ Settled
    /\ version # activeWorker
    /\ caches' = caches \cup {CACHE_NAME(version)}
    /\ waitingWorker' = version
    /\ UNCHANGED <<activeWorker, workerState, cacheNames, deleting, appVars>>

\* the install listener when cache.addAll rejects: the cache has been made,
\* the worker is discarded
InstallFails(version) ==
    /\ Settled
    /\ version # activeWorker
    /\ caches' = caches \cup {CACHE_NAME(version)}
    /\ UNCHANGED <<activeWorker, waitingWorker, workerState, cacheNames,
                   deleting, appVars>>

\* a cache that is not this version's
IsOtherVersion(cacheName, version) ==
    cacheName \in AllCacheNames \ {ForeignCache, CACHE_NAME(version)}

\* "cacheName !== CACHE_NAME" (29)
IsOldCache(cacheName, version) == cacheName # CACHE_NAME(version)

\* the activate listener (22-38) up to the calls of caches.delete: the
\* waiting worker becomes the active one, caches.keys() resolves and the
\* map issues a delete for every name that is not CACHE_NAME
ActivateEvent ==
    /\ waitingWorker # NoVersion
    /\ activeWorker' = waitingWorker
    /\ waitingWorker' = NoVersion
    /\ workerState' = "activating"
    /\ cacheNames' = caches
    /\ deleting' = {cacheName \in caches : IsOldCache(cacheName, waitingWorker)}
    /\ UNCHANGED <<caches, appVars>>

\* one caches.delete(cacheName) settles
DeleteSettles(cacheName) ==
    /\ cacheName \in deleting
    /\ caches' = caches \ {cacheName}
    /\ deleting' = deleting \ {cacheName}
    /\ UNCHANGED <<activeWorker, waitingWorker, workerState, cacheNames,
                   appVars>>

\* the inner Promise.all resolves, and so does the promise of waitUntil
ActivateCompletes ==
    /\ workerState = "activating"
    /\ deleting = {}
    /\ workerState' = "activated"
    /\ UNCHANGED <<caches, activeWorker, waitingWorker, cacheNames, deleting,
                   appVars>>

\* any set of caches is there before the first version is installed
InitWorker ==
    /\ AppMounted
    /\ caches \in SUBSET AllCacheNames
    /\ activeWorker = NoVersion
    /\ waitingWorker = NoVersion
    /\ workerState = "activated"
    /\ cacheNames = {}
    /\ deleting = {}

NextWorker ==
    \/ \E version \in Versions : InstallSucceeds(version)
    \/ \E version \in Versions : InstallFails(version)
    \/ ActivateEvent
    \/ \E cacheName \in AllCacheNames : DeleteSettles(cacheName)
    \/ ActivateCompletes

SpecWorker == InitWorker /\ [][NextWorker]_vars

(***************************************************************************)
(* identifyGesture as a function of the recognizer's output, with the      *)
(* bounding box computed from the landmarks (geminiService.ts 77-125).     *)
(* results.landmarks is a sequence of hands, a hand a sequence of points.  *)
(***************************************************************************)
Points == [x : Coordinates, y : Coordinates]

HandLists == UNION {[1..n -> Points] : n \in 0..MaxLandmarks}

LandmarkLists == {<<>>} \cup {<<hand>> : hand \in HandLists}

\* Math.min(...xs), Math.max(...xs)
MinOf(xs) ==
    IF xs = {} THEN Infinity ELSE CHOOSE m \in xs : \A x \in xs : m <= x
MaxOf(xs) ==
    IF xs = {} THEN -Infinity ELSE CHOOSE m \in xs : \A x \in xs : m >= x

\* "let boundingBox = undefined"
UndefinedBox == [defined |-> FALSE]

\* the box of lines 107-116 for the hand results.landmarks[0]
BoundingBoxOf(hand) ==
    LET xs == {hand[i].x : i \in DOMAIN hand}
        ys == {hand[i].y : i \in DOMAIN hand}
    IN [defined |-> TRUE,
        xmin |-> MinOf(xs), xmax |-> MaxOf(xs),
        ymin |-> MinOf(ys), ymax |-> MaxOf(ys)]

\* "if (results.landmarks && results.landmarks[0])": an empty hand is truthy
HasHand(landmarks) == Len(landmarks) > 0

identifyGesture(raw, ready) ==
    LET r == Recognize([raw EXCEPT !.landmarks = HasHand(raw.landmarks)], ready)
    IN [r EXCEPT !.boundingBox =
                    IF r.boundingBox = "box"
                      THEN BoundingBoxOf(raw.landmarks[1])
                      ELSE UndefinedBox]

\* the recognizer outputs of this specification
BoxInputs ==
    {[NoHand EXCEPT !.landmarks = <<>>]}
      \cup [name : {"Thumb_Up"},
            score : {ConfidenceThreshold, ConfidenceThreshold - 1},
            landmarks : LandmarkLists]

\* the detector as mounted, a frame before the recognizer
InitBox ==
    /\ clock = StartTime
    /\ gestureRecognizer = FALSE
    /\ isInitializing = FALSE
    /\ initError = FALSE
    /\ isMountedRef = TRUE
    /\ isActive = TRUE
    /\ isPaused = FALSE
    /\ gestureMappings = DEFAULT_MAPPINGS
    /\ changesLeft = MaxChanges
    /\ cameraError = FALSE
    /\ requestRef = TRUE
    /\ lastDetectionTimeRef = 0
    /\ lastGestureRef = "None"
    /\ actionCooldownRef = 0
    /\ detectionState = InitialDetectionState
    /\ boundingBox = "null"
    /\ calls = {}
    /\ srcObject = 0
    /\ liveStreams = {}
    /\ pendingMedia = [NoMedia EXCEPT ![TRUE] = 1]
    /\ streamCount = 0
    /\ grantsLeft = MaxGrants
    /\ handlerVersion = 0
    /\ delayRef = BaseDelay
    /\ lastActionTimeRef = 0
    /\ processing = FALSE
    /\ timers = <<>>
    /\ requests = <<>>
    /\ loopsLeft = 0
    /\ waitsLeft = 0
    /\ dispatchLog = <<>>
    /\ \E raw \in BoxInputs :
          processed = [NothingProcessed EXCEPT !.raw = raw]
    /\ storage = Stringify(gestureMappings)
    /\ NoWorker
    /\ InitialDeck

\* identifyGesture returns for the frame
IdentifyFrame ==
    /\ processed.result.error = NothingProcessed.result.error
    /\ processed' =
          [processed EXCEPT !.result = identifyGesture(processed.raw, TRUE)]
    /\ UNCHANGED <<clock, serviceVars, propVars, cameraError, cameraVars,
                   requestRef, lastDetectionTimeRef, cooldownVars,
                   detectionState, boundingBox, calls, dispatchLog,
                   remoteVars, storage, workerVars, deckVars>>

NextBox == IdentifyFrame

SpecBox == InitBox /\ [][NextBox]_vars

(***************************************************************************)
(* Properties of deactivation, of the camera and of the backoff            *)
(***************************************************************************)
\* the detector is switched off or gone
Deactivated == ~isMountedRef \/ ~isActive

\* this step runs the continuation of an identifyGesture call
ResultHandled ==
    \/ \E c \in calls : c.phase = "micro" /\ c \notin calls'
    \/ Len(requests') < Len(requests)

\* C5: when the result of an identifyGesture call is handled after the
\* detector was deactivated (isActive false, or unmounted), the DetectionState
\* and the bounding box keep the values they had.
C5_StateKeptAfterDeactivation ==
    [][(Deactivated /\ ResultHandled)
          => UNCHANGED <<detectionState, boundingBox>>]_vars

\* C6: a result handled after the detector was deactivated causes no
\* onGestureDetected call and leaves lastGestureRef, actionCooldownRef and
\* lastActionTimeRef as they were.
C6_NoDispatchAfterDeactivation ==
    [][(Deactivated /\ ResultHandled)
          => /\ FiresNothing
             /\ UNCHANGED <<lastGestureRef, actionCooldownRef,
                            lastActionTimeRef>>]_vars

\* C7: while the detector is deactivated no callback of the loop is pending:
\* no animation frame and no analyzeLoop timer, also after a call that was in
\* flight at the deactivation has completed.
C7_NoTickAfterDeactivation == Deactivated => (~requestRef /\ timers = <<>>)

\* C8: once the detector is deactivated and the pending getUserMedia requests
\* have settled, no camera stream is live.
C8_CameraReleasedAfterDeactivation ==
    (Deactivated /\ PendingTotal = 0) => liveStreams = {}

\* C9: at most one camera stream is live at any time.
C9_AtMostOneLiveStream == Cardinality(liveStreams) <= 1

\* C10: handling a QUOTA_EXCEEDED result makes the polling delay
\* min(previous * 2, 30000), and handling a result without error makes it
\* 6000, the previous delay being delayRef before the result is handled.
C10_BackoffDoublesAndResets ==
    [][Len(requests') < Len(requests)
          => /\ (processed'.result.error = "QUOTA_EXCEEDED")
                   => delayRef' = Backoff(delayRef)
             /\ (processed'.result.error = "none")
                   => delayRef' = BaseDelay]_vars

(***************************************************************************)
(* Properties of the backoff and of the handling of error results          *)
(***************************************************************************)
\* C11: in every reachable state of the remote-API loop the polling delay
\* delayRef lies between 6000 and 30000, whatever results, quota errors and
\* exceptions the calls ended with.
C11_DelayWithinBounds == BaseDelay <= delayRef /\ delayRef <= MaxDelay

\* C11 witness: the delay has reached the cap through quota errors and a call
\* that threw has then left it there.
C11_Witness ==
    /\ delayRef = MaxDelay
    /\ processed.result.error = "throws"
    /\ loopsLeft = 0

\* C12: handling a QUOTA_EXCEEDED result sets the detection status of the
\* mounted detector to rate_limit, calls onGestureDetected not at all and
\* leaves lastActionTimeRef as it was.
C12_QuotaResultEffect ==
    [][(/\ Len(requests') < Len(requests)
        /\ processed'.result.error = "QUOTA_EXCEEDED")
          => /\ isMountedRef => detectionState'.status = "rate_limit"
             /\ FiresNothing
             /\ UNCHANGED lastActionTimeRef]_vars

\* C12 witness: a quota error was handled after an action had been
\* dispatched: the status is rate_limit, the one dispatch and its time stand.
C12_Witness ==
    /\ processed.result.error = "QUOTA_EXCEEDED"
    /\ detectionState.status = "rate_limit"
    /\ Len(dispatchLog) = 1
    /\ lastActionTimeRef = dispatchLog[1].now
    /\ requests = <<>>

\* C13: handling a LOADING result in the mounted local-model loop sets the
\* detection status to loading, calls onGestureDetected not at all and leaves
\* lastGestureRef, actionCooldownRef and the bounding box as they were.
C13_LoadingResultEffect ==
    [][\A c \in calls :
          (Handles(c) /\ c.result.error = "LOADING")
          => /\ c \notin calls'
             /\ detectionState'.status = "loading"
             /\ FiresNothing
             /\ UNCHANGED <<lastGestureRef, actionCooldownRef, boundingBox>>]_vars

\* C13 witness: a LOADING result was handled while the first call was still
\* awaiting initializeModel.
C13_Witness ==
    /\ processed.result.error = "LOADING"
    /\ processed.live
    /\ isInitializing
    /\ detectionState.status = "loading"
    /\ detectionState.label = "..."

\* C14: once initializeModel has failed, every identifyGesture call completes
\* with INIT_FAILED, the status of the mounted detector is error after each
\* such result, onGestureDetected is never called again, and a tick of the
\* detection loop still requests the next animation frame.
C14_AfterInitFailure ==
    [][/\ initError' => \A c \in calls' \ calls : c.result.error = "INIT_FAILED"
       /\ initError =>
             /\ \A c \in calls :
                   (Handles(c) /\ c \notin calls'
                      /\ c.result.error = "INIT_FAILED")
                   => detectionState'.status = "error"
             /\ FiresNothing
             /\ (/\ requestRef /\ isMountedRef
                 /\ lastDetectionTimeRef' # lastDetectionTimeRef) => requestRef'
      ]_vars

\* C14 witness: after the failure a first INIT_FAILED result has set the
\* status to error, and a later tick, with a stream on the video element, has
\* made a call that completes with INIT_FAILED again.
C14_Witness ==
    /\ initError
    /\ detectionState.status = "error"
    /\ processed.result.error = "INIT_FAILED"
    /\ srcObject # 0
    /\ requestRef
    /\ \E c \in calls : c.phase = "micro" /\ c.result.error = "INIT_FAILED"

\* the lifecycle of the model singleton of geminiService.ts
Lifecycle ==
    IF gestureRecognizer THEN "ready"
    ELSE IF initError THEN "failed"
    ELSE IF isInitializing THEN "initializing"
    ELSE "uninitialized"

\* the runs of initializeModel that are past the guard and not yet settled
InitsInProgress == {c \in calls : c.phase = "init"}

LifecycleSteps ==
    {<<"uninitialized", "initializing">>, <<"initializing", "ready">>,
     <<"initializing", "failed">>}

\* C15: at most one initializeModel is in progress at any time, and it is in
\* progress exactly while isInitializing is set; a call of identifyGesture
\* made during the initialization completes with LOADING and starts no second
\* initialization; the lifecycle moves only uninitialized -> initializing ->
\* ready or failed, and ready and failed are never left.
C15_SingleInitialization ==
    [][/\ Cardinality(InitsInProgress') <= 1
       /\ isInitializing' <=> InitsInProgress' # {}
       /\ isInitializing =>
             /\ InitsInProgress' \subseteq InitsInProgress
             /\ \A c \in calls' \ calls :
                   c.phase = "micro" /\ isInitializing'
                   => c.result.error = "LOADING"
       /\ Lifecycle' # Lifecycle => <<Lifecycle, Lifecycle'>> \in LifecycleSteps
      ]_vars

\* C15 witness: while the one initialization is still in progress, a second
\* caller has come and holds a LOADING result.
C15_Witness ==
    /\ isInitializing
    /\ Cardinality(InitsInProgress) = 1
    /\ \E c \in calls : c.phase = "micro" /\ c.result.error = "LOADING"

\* C16: whenever the mounted detection loop processes a valid result whose
\* gesture is None, the status becomes waiting and the shown bounding box is
\* cleared, also while a cooldown window is running; and the last fired
\* gesture is cleared when more than 500 ms have passed since the cooldown
\* window ended.
C16_NoneResultEffect ==
    [][\A c \in calls :
          (/\ Handles(c) /\ c \notin calls'
           /\ c.result.error = "none" /\ c.result.gesture = "None")
          => /\ detectionState'.status = "waiting"
             /\ boundingBox' = "null"
             /\ ShouldResetLast(c.now) => lastGestureRef' = "None"]_vars

\* a valid result whose gesture is not None and whose mapped action is NONE
Unmapped(c) ==
    /\ c.result.error = "none"
    /\ c.result.gesture # "None"
    /\ MappedAction(c.mappings, c.result.gesture) = "NONE"

\* C17: when the mounted loop processes a detected gesture whose mapped action
\* is NONE, onGestureDetected is not called and the detection state shows the
\* name of the gesture, which differs from what is shown when no gesture is
\* seen.
C17_UnmappedGestureSurfaced ==
    [][\A c \in calls :
          (Handles(c) /\ c \notin calls' /\ Unmapped(c))
          => /\ FiresNothing
             /\ detectionState'.label = GestureName(c.result.gesture)
             /\ detectionState'.label # "ready-text"]_vars

\* C18: a result of a gesture that the mounted loop processes outside a
\* cooldown window is translated with the mapping that is current when the
\* result is processed: the action shown is the one the current mapping
\* gives, and nothing is dispatched when the current mapping gives NONE.
C18_CurrentMappingApplies ==
    [][\A c \in calls :
          (/\ Handles(c) /\ c \notin calls'
           /\ c.result.error = "none" /\ c.result.gesture # "None"
           /\ ~InCooldown(c.now))
          => LET current == MappedAction(gestureMappings, c.result.gesture)
             IN  IF current = "NONE"
                    THEN FiresNothing /\ detectionState'.status = "waiting"
                    ELSE /\ detectionState'.action = current
                         /\ detectionState'.status = "success"]_vars

\* a valid result of a gesture, which the loop looks up in its mapping
LooksUp(c) ==
    /\ c.result.error = "none"
    /\ c.result.gesture # "None"
    /\ ~InCooldown(c.now)

\* C19: whatever persisted value the App has loaded, the lookup of a detected
\* gesture in the mapping gives the mounted loop exactly one GestureAction
\* (it does not throw and its value is a member of GestureAction), the
\* action is NONE when the gesture has no entry, and nothing is dispatched
\* for a gesture without an entry.
C19_LookupIsTotal ==
    [][\A c \in calls :
          (Handles(c) /\ c \notin calls' /\ LooksUp(c))
          => /\ ~LookupThrows(c.mappings)
             /\ MappedAction(c.mappings, c.result.gesture) \in GestureAction
             /\ c.result.gesture \notin DOMAIN c.mappings
                  => /\ MappedAction(c.mappings, c.result.gesture) = "NONE"
                     /\ FiresNothing]_vars

Delivered(action) ==
    /\ FiresOnce
    /\ dispatchLog'[Len(dispatchLog')].action = action

\* C22: every PAUSE action delivered to handleGesture toggles isPaused, from
\* false to true and from true to false, and changes neither the slide
\* index, the volume, the zoom level nor the theme.
C22_PauseToggles ==
    [][Delivered("PAUSE")
         => /\ isPaused' = ~isPaused
            /\ UNCHANGED <<currentSlideIndex, volume, zoomLevel, isDarkMode>>]_vars

\* C23: while the App is paused, a delivery of an action other than PAUSE to
\* handleGesture and a press of a key other than Escape and F leave the slide
\* index, the volume, the zoom level and the theme as they are; Escape and
\* the resume button set paused to false.
C23_PausedIgnoresActions ==
    [][isPaused =>
         /\ (\E action \in AppActions \ {"PAUSE"} : Delivered(action))
              => UNCHANGED <<currentSlideIndex, volume, zoomLevel, isDarkMode>>
         /\ (\E key \in Keys \ {"Escape", "f"} : KeyDown(key))
              => UNCHANGED <<currentSlideIndex, volume, zoomLevel, isDarkMode>>
         /\ (KeyDown("Escape") \/ ResumeButton) => ~isPaused']_vars

\* C24: whatever a tick ends with (a result, an error result, an exception of
\* identifyGesture or of onGestureDetected), the next tick is scheduled: the
\* continuation of analyzeLoop leaves a timer for the loop of the call, which
\* passes the guard while the detector is active, not paused and without
\* camera error; the continuation of detectionLoop leaves the animation
\* frame it requested before the call.
Completes(i) ==
    /\ i \in 1..Len(requests)
    /\ requests' = RemoveAt(requests, i)

C25_ExceptionIsNoneResult ==
    [][\A i \in 1..Len(requests) :
          (Completes(i) /\ processed'.result.error = "throws" /\ isMountedRef)
            => /\ detectionState'.status = "waiting"
               /\ FiresNothing
               /\ Len(timers') = Len(timers) + 1]_vars

\* C26: the camera is requested (getUserMedia) only by the retry button and
\* by the activation of the detector, never by a step of the loop or by the
\* failure itself, and while the camera error is set the loop issues no
\* identifyGesture call.
NewMediaRequest == \E a \in BOOLEAN : pendingMedia'[a] > pendingMedia[a]

C26_NoAutomaticRetry ==
    [][/\ NewMediaRequest => (RetryCamera \/ Activate)
       /\ cameraError => Cardinality(calls') <= Cardinality(calls)]_vars

\* the loop ticks with the camera error set: no stream, no request for one,
\* no call
C26_Witness ==
    /\ cameraError
    /\ isMountedRef /\ isActive /\ ~isPaused /\ requestRef
    /\ PendingTotal = 0
    /\ streamCount = 0
    /\ calls = {}
    /\ lastDetectionTimeRef = clock
    /\ clock >= StartTime + SamplingInterval

\* C27: the results of the identifyGesture calls are applied in the order in
\* which the calls were issued: when the result of a call is handled, no call
\* issued before it is still outstanding.
C27_AppliedInIssueOrder ==
    [][\A c \in calls :
          (calls' = calls \ {c}) => \A d \in calls : d.now >= c.now]_vars

\* C28: two consecutive identifyGesture invocations of the local-model loop
\* are at least 150 ms apart: a tick issues a call only when 150 ms have
\* passed since the attempt before it, and no call is later than the last
\* attempt.
C28_MinimumSamplingInterval ==
    [][/\ \A c \in calls : c.now <= lastDetectionTimeRef
       /\ Cardinality(calls') > Cardinality(calls)
            => /\ clock - lastDetectionTimeRef >= SamplingInterval
               /\ lastDetectionTimeRef' = clock
               /\ \A c \in calls : clock - c.now >= SamplingInterval]_vars

\* two calls issued less than two sampling intervals apart, the later one by
\* the latest attempt
C28_Witness ==
    \E c, d \in calls :
       /\ d.now > c.now
       /\ d.now - c.now < 2 * SamplingInterval
       /\ lastDetectionTimeRef = d.now

\* C29: the deactivation of the detector (isActive becomes false) resets the
\* DetectionState to the value it was created with, whose status is
\* "loading".
C29_ResetOnDeactivation ==
    [][(isMountedRef /\ isActive /\ ~isActive')
          => /\ detectionState' = InitialDetectionState
             /\ InitialDetectionState.status = "loading"]_vars

\* C30: a bounding box that identifyGesture returns in a result without
\* error has its four coordinates within [0,1], xmin <= xmax and
\* ymin <= ymax.
C30_BoxWithinFrame ==
    (processed.result.error = "none" /\ processed.result.boundingBox.defined)
      => LET b == processed.result.boundingBox
         IN /\ \A c \in {b.xmin, b.xmax, b.ymin, b.ymax} : c >= 0 /\ c <= One
            /\ b.xmin <= b.xmax
            /\ b.ymin <= b.ymax

\* C31: while the detector is active and its overlay is rendered, a frame
\* callback that redraws the overlay is pending at every moment, whether or
\* not an identifyGesture call is outstanding: the overlay is redrawn on every
\* display frame.
C31_OverlayEveryFrame ==
    (isMountedRef /\ isActive /\ VideoElement) => requestRef

\* C32: the stop step of the isActive effect is safe without a stream and
\* idempotent: with no stream attached it changes nothing and raises no
\* error, and applied to its own result it changes nothing more; after it no
\* stream is attached and the stream that was attached is stopped.  The
\* same holds of the track stop of the remote variant's effect.
C32_StopIsIdempotent ==
    \A video \in BOOLEAN :
       LET once == StopStream(video, srcObject, liveStreams)
           twice == StopStream(video, once.srcObject, once.liveStreams)
       IN /\ ~once.threw /\ ~twice.threw
          /\ twice = once
          /\ srcObject = 0 =>
                (once.srcObject = srcObject /\ once.liveStreams = liveStreams)
          /\ video => (once.srcObject = 0 /\ srcObject \notin once.liveStreams)
          /\ StopTracks(srcObject, StopTracks(srcObject, liveStreams))
                = StopTracks(srcObject, liveStreams)
          /\ srcObject = 0 => StopTracks(srcObject, liveStreams) = liveStreams

\* the detector was deactivated with a stream attached: the stream is
\* stopped and none is attached
C32_Witness ==
    /\ isMountedRef /\ ~isActive
    /\ streamCount = 1
    /\ srcObject = 0
    /\ liveStreams = {}
    /\ PendingTotal = 0

\* C33: when the local-model loop calls onGestureDetected, the cooldown
\* window it opens ends at least 1000 ms after the moment of the call.
C33_CooldownFromDispatch ==
    [][(FiresOnce /\ calls' # calls)
          => actionCooldownRef' >= clock + CooldownMs]_vars

\* C34: while isPaused is true, no step of the detection loop issues an
\* identifyGesture call and none calls onGestureDetected.
C34_PausedLoopIsSilent ==
    [][(isPaused /\ isPaused') =>
         /\ FiresNothing
         /\ Len(requests') <= Len(requests)
         /\ Cardinality(calls') <= Cardinality(calls)]_vars

\* C35: in every reachable state of the App the current slide index is an
\* index of the deck: 0 <= currentSlideIndex <= slides.length - 1.
C35_IndexWithinDeck ==
    currentSlideIndex >= 0 /\ currentSlideIndex <= slidesLength - 1

ZoomLevels == {InitialZoom + k * ZoomStep : k \in 0..((MaxZoom - InitialZoom) \div ZoomStep)}

C37_ZoomWithinLevels ==
    /\ zoomLevel \in ZoomLevels
    /\ [][/\ zoomLevel' \in ZoomLevels
          /\ currentSlideIndex' # currentSlideIndex => zoomLevel' = InitialZoom]_vars

\* the largest zoom, on a slide other than the first
C37_Witness == zoomLevel = MaxZoom /\ currentSlideIndex > 0

\* C38: the volume lies in [0, 100] and is a multiple of 10 in every state.
C38_VolumeWithinRange ==
    /\ volume >= 0
    /\ volume <= MaxVolume
    /\ volume % VolumeStep = 0

\* the volume has reached its upper limit
C38_Witness == volume = MaxVolume /\ dispatchLog = <<>> /\ ~isPaused

\* C39: the step that completes the activate listener of a worker leaves
\* exactly one cache, the one named CACHE_NAME of that worker's version,
\* whatever caches there were when the worker was installed.
C39_OnlyCurrentCache ==
    [][(workerState = "activating" /\ workerState' = "activated")
          => caches' = {CACHE_NAME(activeWorker')}]_vars

\* the third version is activated, its listener found the caches of both
\* earlier versions and a foreign one, and only its own cache is left
C39_Witness ==
    /\ workerState = "activated"
    /\ activeWorker = "v42"
    /\ cacheNames = AllCacheNames
    /\ caches = {CACHE_NAME("v42")}

====
